---- MODULE Spec2Model ----
(***************************************************************************)
(* Model of tensorpack/train/multigpu.py: the input prefetch policy, the   *)
(* constructors and _setup of the three multi-GPU trainers, and the        *)
(* training lifecycle (before-train, steps, triggers) that runs the ops    *)
(* and callbacks they register.                                            *)
(***************************************************************************)
EXTENDS Integers, Sequences, FiniteSets, TLC

\* ---------------------------------------------------------------- bounds
MaxTowers == 2      \* longest config.tower list
MaxSteps == 2       \* training steps run in one lifecycle
MaxTriggers == 2    \* trigger events in one lifecycle

VARIABLES
    model,          \* config.model: "None" or "model"
    data,           \* config.data: an input source (layers, outermost first); <<>> is None
    dataflow,       \* config.dataflow: "None" or "df"
    tower,          \* config.tower: list of GPU ids
    callbacks,      \* config.callbacks: the caller-owned callback list
    gpu_available,  \* what tf.test.is_gpu_available() answers
    kind,           \* class of the trainer being constructed / run
    args,           \* keyword arguments the constructor received
    pc,             \* position of the trainer in its life
    err,            \* exception that ended the constructor or _setup
    calls,          \* calls made so far by the constructor and _setup, in order
    input_source,   \* self._input_source
    ps_device,      \* self._ps_device
    scale_gradient, \* self._scale_gradient: <<>> while unset, else <<value>>
    base_init,      \* Trainer.__init__ has run
    train_op,       \* self.train_op
    input_hooks,    \* callbacks returned by self._input_source.setup(...)
    copies,         \* learnable state, one value per copy, in units of 1/N
    init_copies,    \* the copies as the builder initialised them
    steps,          \* training steps run
    triggers,       \* trigger events delivered
    sync_runs,      \* executions of post_init_op
    steps_at_sync   \* steps that had run when post_init_op first ran (-1: never)

cfgvars == <<model, data, dataflow, tower, callbacks, gpu_available>>
objvars == <<kind, args, pc, err, calls, input_source, ps_device, scale_gradient,
             base_init, train_op, input_hooks>>
runvars == <<copies, init_copies, steps, triggers, sync_runs, steps_at_sync>>
vars == <<cfgvars, objvars, runvars>>

\* ---------------------------------------------------------------- values
None == "None"
NoSource == <<>>
NoOp == [builder |-> None, towers |-> <<>>, device |-> None, scale |-> FALSE]

Layer(t, devs) == [t |-> t, devs |-> devs]

\* QueueInput(config.dataflow)
QueueInput(df) == <<Layer("QueueInput", <<>>), Layer("DataFlow", <<>>)>>

\* StagingInputWrapper(config.data, devices)
StagingInputWrapper(src, devices) == <<Layer("StagingInputWrapper", devices)>> \o src

\* isinstance(config.data, (StagingInputWrapper, DummyConstantInput))
IsStagingOrDummy(src) ==
    /\ src # NoSource
    /\ Head(src).t \in {"StagingInputWrapper", "DummyConstantInput"}

\* '/gpu:{}'.format(k)
GpuName(k) == <<"/gpu:", k>>

\* ['/gpu:{}'.format(k) for k in config.tower]
DeviceList(tw) == [i \in 1..Len(tw) |-> GpuName(tw[i])]

\* ---------------------------------------------------------------- apply_prefetch_policy
Config == [model |-> model, data |-> data, dataflow |-> dataflow, tower |-> tower]

\* Mutant: the model is not required.
RequiredFields_no_model(config) ==
    config.data # NoSource \/ config.dataflow # None

\* (config.data is not None or config.dataflow is not None) and config.model is not None
RequiredFields(config) ==
    (config.data # NoSource \/ config.dataflow # None) /\ config.model # None

\* config.data is None and config.dataflow is not None
QueueWanted(config) ==
    config.data = NoSource /\ config.dataflow # None

\* Mutant: the flag is ignored.
StagingWanted_ignore_flag(config, gpu_prefetch) ==
    Len(config.tower) > 1

\* len(config.tower) > 1 and gpu_prefetch
StagingWanted(config, gpu_prefetch) ==
    Len(config.tower) > 1 /\ gpu_prefetch

\* Mutant: the wrapper is added whatever config.data already is.
AlreadyStaged_never(src) == FALSE

\* isinstance(config.data, (StagingInputWrapper, DummyConstantInput))
AlreadyStaged(src) == IsStagingOrDummy(src)

\* The policy as a function of the config: the outcome (ok, or AssertionError),
\* config.data and config.dataflow as it leaves them, and the calls it made.
apply_prefetch_policy(config, gpu_prefetch) ==
    LET queue == QueueWanted(config)
        d1 == IF queue THEN QueueInput(config.dataflow) ELSE config.data
        f1 == IF queue THEN None ELSE config.dataflow
        c1 == IF queue THEN <<"QueueInput">> ELSE <<>>
    IN  IF ~RequiredFields(config)
        THEN [ok |-> FALSE, data |-> config.data, dataflow |-> config.dataflow,
              calls |-> <<>>]
        ELSE IF StagingWanted(config, gpu_prefetch)
        THEN IF ~gpu_available
             THEN [ok |-> FALSE, data |-> d1, dataflow |-> f1,
                   calls |-> c1 \o <<"is_gpu_available">>]
             ELSE IF ~AlreadyStaged(d1)
                  THEN [ok |-> TRUE,
                        data |-> StagingInputWrapper(d1, DeviceList(config.tower)),
                        dataflow |-> f1,
                        calls |-> c1 \o <<"is_gpu_available", "StagingInputWrapper">>]
                  ELSE [ok |-> TRUE, data |-> d1, dataflow |-> f1,
                        calls |-> c1 \o <<"is_gpu_available">>]
        ELSE [ok |-> TRUE, data |-> d1, dataflow |-> f1, calls |-> c1]

\* ---------------------------------------------------------------- callbacks and ops
Hook(name) == [name |-> name, op |-> None, run_before |-> FALSE,
               run_as_trigger |-> FALSE, verbose |-> FALSE]

\* Mutant: the hook is not run before training.
post_init_cb_no_before ==
    [name |-> "RunOp", op |-> "post_init_op", run_before |-> FALSE,
     run_as_trigger |-> TRUE, verbose |-> TRUE]

\* RunOp(lambda: post_init_op, run_before=True, run_as_trigger=True, verbose=True)
post_init_cb ==
    [name |-> "RunOp", op |-> "post_init_op", run_before |-> TRUE,
     run_as_trigger |-> TRUE, verbose |-> TRUE]

\* Mutant: the new callbacks go in front of the caller's.
extend_front(list, items) == items \o list

\* list.extend(items)
extend(list, items) == list \o items

\* The apply operation each builder's build() returns.
ParameterServerApply(towers, device) ==
    [builder |-> "SyncMultiGPUParameterServerBuilder", towers |-> towers,
     device |-> device, scale |-> FALSE]

ReplicatedApply(towers) ==
    [builder |-> "SyncMultiGPUReplicatedBuilder", towers |-> towers,
     device |-> None, scale |-> FALSE]

AsyncApply(towers, scale) ==
    [builder |-> "AsyncMultiGPUBuilder", towers |-> towers,
     device |-> None, scale |-> scale]

\* ---------------------------------------------------------------- learnable state
RECURSIVE SumTo(_, _)
SumTo(g, n) == IF n = 0 THEN 0 ELSE g[n] + SumTo(g, n - 1)

Sum(g) == SumTo(g, Len(g))

\* Mutant: every tower copies its left neighbour, tower 0 the last one.
PostInitSync_rotate(c) ==
    [i \in 1..Len(c) |-> c[IF i = 1 THEN Len(c) ELSE i - 1]]

\* post_init_op: tower 0's values are copied to every other tower's copy.
PostInitSync(c) == [i \in 1..Len(c) |-> c[1]]

RECURSIVE SyncTimes(_, _)
SyncTimes(c, n) == IF n = 0 THEN c ELSE SyncTimes(PostInitSync(c), n - 1)

\* Mutant: each tower applies its own gradient to its own copy.
ReplicatedStep_own_gradient(c, g) == [i \in 1..Len(c) |-> c[i] - Len(g) * g[i]]

\* Replicated: the mean of the per-tower gradients is applied to every copy.
\* Values are kept in units of 1/N, so the mean sum(g)/N is subtracted as sum(g).
ReplicatedStep(c, g) == [i \in 1..Len(c) |-> c[i] - Sum(g)]

\* Parameter server: the mean gradient is applied once to the single copy.
ParameterServerStep(c, g) == [i \in 1..Len(c) |-> c[i] - Sum(g)]

\* Async: every tower applies its own gradient, scaled by 1/N if scale_gradient.
AsyncStep(c, g, scale) ==
    [i \in 1..Len(c) |-> c[i] - (IF scale THEN Sum(g) ELSE Len(g) * Sum(g))]

\* The effect of running train_op once with per-tower gradients g.
RunTrainOp(op, c, g) ==
    IF op.builder = "SyncMultiGPUReplicatedBuilder" THEN ReplicatedStep(c, g)
    ELSE IF op.builder = "AsyncMultiGPUBuilder" THEN AsyncStep(c, g, op.scale)
    ELSE ParameterServerStep(c, g)

\* Number of callbacks of the list that run post_init_op in a phase.
RECURSIVE CountRuns(_, _)
CountRuns(cbs, before) ==
    IF cbs = <<>> THEN 0
    ELSE (IF Head(cbs).op = "post_init_op"
             /\ (IF before THEN Head(cbs).run_before ELSE Head(cbs).run_as_trigger)
          THEN 1 ELSE 0) + CountRuns(Tail(cbs), before)

\* ---------------------------------------------------------------- initial states
\* Tower lists of a given length: GPU ids in increasing and in decreasing order.
TowerChoices ==
    UNION {{[i \in 1..n |-> i - 1], [i \in 1..n |-> n - i]} : n \in 1..MaxTowers}

\* Input sources a caller can put in config.data (or none).
DataChoices ==
    {NoSource,
     <<Layer("FeedInput", <<>>)>>,
     <<Layer("DummyConstantInput", <<>>)>>,
     QueueInput("df"),
     StagingInputWrapper(<<Layer("FeedInput", <<>>)>>, DeviceList(<<0>>))}

CallbackChoices == {<<>>, <<Hook("A"), Hook("B")>>}

\* Callback lists an input source's setup() can return.
HookChoices == {<<>>, <<Hook("in1"), Hook("in2")>>}

\* Initial values of a state copy, and per-tower gradients of a step.
Values == {0, 1}

Init ==
    /\ model \in {None, "model"}
    /\ data \in DataChoices
    /\ dataflow \in {None, "df"}
    /\ tower \in TowerChoices
    /\ callbacks \in CallbackChoices
    /\ gpu_available \in BOOLEAN
    /\ kind = None
    /\ args = [k \in {} |-> None]
    /\ pc = "new"
    /\ err = None
    /\ calls = <<>>
    /\ input_source = NoSource
    /\ ps_device = None
    /\ scale_gradient = <<>>
    /\ base_init = FALSE
    /\ train_op = NoOp
    /\ input_hooks = <<>>
    /\ copies = <<>>
    /\ init_copies = <<>>
    /\ steps = 0
    /\ triggers = 0
    /\ sync_runs = 0
    /\ steps_at_sync = -1

\* ---------------------------------------------------------------- constructors
\* A constructor may be called while no trainer over this config has been set up.
CanConstruct == pc \in {"new", "constructed", "ctor_error"}

\* The fresh object: no attribute is set yet, nothing has been built.
FreshObject ==
    /\ train_op' = NoOp
    /\ input_hooks' = <<>>
    /\ UNCHANGED <<model, tower, callbacks, gpu_available, runvars>>

\* apply_prefetch_policy(config, ...) raised: the constructor ends there.
PolicyFailed(r) ==
    /\ pc' = "ctor_error"
    /\ err' = "AssertionError"
    /\ calls' = r.calls
    /\ input_source' = NoSource
    /\ ps_device' = None
    /\ scale_gradient' = <<>>
    /\ base_init' = FALSE

\* Mutant: any ps_device is accepted.
ValidPsDevice_any(dev) == TRUE

\* ps_device in ['gpu', 'cpu']
ValidPsDevice(dev) == dev \in {"gpu", "cpu"}

\* SyncMultiGPUTrainerParameterServer.__init__(config, ps_device, gpu_prefetch)
ParameterServerInit(dev, gp) ==
    /\ CanConstruct
    /\ FreshObject
    /\ kind' = "ParameterServer"
    /\ args' = [ps_device |-> dev, gpu_prefetch |-> gp]
    /\ LET r == apply_prefetch_policy(Config, gp)
       IN  /\ data' = r.data
           /\ dataflow' = r.dataflow
           /\ IF ~r.ok THEN PolicyFailed(r)
              ELSE /\ input_source' = r.data
                   /\ scale_gradient' = <<>>
                   /\ IF ~ValidPsDevice(dev)
                      THEN /\ pc' = "ctor_error"
                           /\ err' = "AssertionError"
                           /\ calls' = r.calls
                           /\ ps_device' = None
                           /\ base_init' = FALSE
                      ELSE /\ pc' = "constructed"
                           /\ err' = None
                           /\ calls' = r.calls \o <<"Trainer.__init__">>
                           /\ ps_device' = dev
                           /\ base_init' = TRUE

\* SyncMultiGPUTrainer(config)
SyncMultiGPUTrainer == ParameterServerInit("gpu", TRUE)

\* SyncMultiGPUTrainerReplicated.__init__(config, gpu_prefetch)
ReplicatedInit(gp) ==
    /\ CanConstruct
    /\ FreshObject
    /\ kind' = "Replicated"
    /\ args' = [gpu_prefetch |-> gp]
    /\ LET r == apply_prefetch_policy(Config, gp)
       IN  /\ data' = r.data
           /\ dataflow' = r.dataflow
           /\ IF ~r.ok THEN PolicyFailed(r)
              ELSE /\ input_source' = r.data
                   /\ scale_gradient' = <<>>
                   /\ ps_device' = None
                   /\ pc' = "constructed"
                   /\ err' = None
                   /\ calls' = r.calls \o <<"Trainer.__init__">>
                   /\ base_init' = TRUE

\* AsyncMultiGPUTrainer.__init__(config, scale_gradient)
AsyncInit(sg) ==
    /\ CanConstruct
    /\ FreshObject
    /\ kind' = "Async"
    /\ args' = [scale_gradient |-> sg]
    /\ LET r == apply_prefetch_policy(Config, TRUE)
       IN  /\ data' = r.data
           /\ dataflow' = r.dataflow
           /\ IF ~r.ok THEN PolicyFailed(r)
              ELSE /\ input_source' = r.data
                   /\ scale_gradient' = <<sg>>
                   /\ ps_device' = None
                   /\ pc' = "constructed"
                   /\ err' = None
                   /\ calls' = r.calls \o <<"Trainer.__init__">>
                   /\ base_init' = TRUE

\* ---------------------------------------------------------------- _setup
\* Mutant: the callback list is extended before the builder is called.
BuildFailed_after_extend ==
    /\ pc' = "setup_error"
    /\ err' = "GraphConstructionError"
    /\ calls' = calls \o <<"input_source.setup", "callbacks.extend", "build">>
    /\ callbacks' = extend(callbacks, input_hooks')
    /\ UNCHANGED <<train_op, runvars>>

\* The builder's build() raised (a tower's computation function failed): nothing
\* after the call in _setup runs.
BuildFailed ==
    /\ pc' = "setup_error"
    /\ err' = "GraphConstructionError"
    /\ calls' = calls \o <<"input_source.setup", "build">>
    /\ UNCHANGED <<train_op, callbacks, runvars>>

\* The builder built every tower: the learnable state exists, one copy per
\* owner, each initialised on its own.
Built(n, iv) ==
    /\ pc' = "setup_done"
    /\ err' = None
    /\ calls' = calls \o <<"input_source.setup", "build", "callbacks.extend">>
    /\ copies' = [i \in 1..n |-> Len(tower) * iv[i]]
    /\ init_copies' = [i \in 1..n |-> Len(tower) * iv[i]]
    /\ UNCHANGED <<steps, triggers, sync_runs, steps_at_sync>>

SetupFrame ==
    UNCHANGED <<model, data, dataflow, tower, gpu_available, kind, args,
                input_source, ps_device, scale_gradient, base_init>>

\* SyncMultiGPUTrainerParameterServer._setup
ParameterServerSetup(hooks, fails) ==
    /\ pc = "constructed"
    /\ kind = "ParameterServer"
    /\ SetupFrame
    /\ input_hooks' = hooks
    /\ IF fails THEN BuildFailed
       ELSE /\ \E iv \in [1..1 -> Values] : Built(1, iv)
            /\ train_op' = ParameterServerApply(tower, ps_device)
            /\ callbacks' = extend(callbacks, hooks)

\* SyncMultiGPUTrainerReplicated._setup
ReplicatedSetup(hooks, fails) ==
    /\ pc = "constructed"
    /\ kind = "Replicated"
    /\ SetupFrame
    /\ input_hooks' = hooks
    /\ IF fails THEN BuildFailed
       ELSE /\ \E iv \in [1..Len(tower) -> Values] : Built(Len(tower), iv)
            /\ train_op' = ReplicatedApply(tower)
            /\ callbacks' = extend(callbacks, hooks \o <<post_init_cb>>)

\* AsyncMultiGPUTrainer._setup
AsyncSetup(hooks, fails) ==
    /\ pc = "constructed"
    /\ kind = "Async"
    /\ SetupFrame
    /\ input_hooks' = hooks
    /\ IF fails THEN BuildFailed
       ELSE /\ \E iv \in [1..1 -> Values] : Built(1, iv)
            /\ train_op' = AsyncApply(tower, scale_gradient[1])
            /\ callbacks' = extend(callbacks, hooks)

\* ---------------------------------------------------------------- lifecycle
\* The callbacks of the list that run post_init_op in this phase run it, in order.
RunCallbacks(before) ==
    LET n == CountRuns(callbacks, before)
    IN  /\ copies' = SyncTimes(copies, n)
        /\ sync_runs' = sync_runs + n
        /\ steps_at_sync' = IF n > 0 /\ steps_at_sync = -1 THEN steps ELSE steps_at_sync

\* before-train: every callback's before_train hook runs.
BeforeTrain ==
    /\ pc = "setup_done"
    /\ pc' = "training"
    /\ RunCallbacks(TRUE)
    /\ UNCHANGED <<cfgvars, kind, args, err, calls, input_source, ps_device,
                   scale_gradient, base_init, train_op, input_hooks,
                   init_copies, steps, triggers>>

\* One training step: train_op runs with the towers' gradients g.
RunStep(g) ==
    /\ pc = "training"
    /\ steps < MaxSteps
    /\ steps' = steps + 1
    /\ copies' = RunTrainOp(train_op, copies, g)
    /\ UNCHANGED <<cfgvars, objvars, init_copies, triggers, sync_runs,
                   steps_at_sync>>

\* A trigger event: every callback's trigger hook runs.
Trigger ==
    /\ pc = "training"
    /\ triggers < MaxTriggers
    /\ triggers' = triggers + 1
    /\ RunCallbacks(FALSE)
    /\ UNCHANGED <<cfgvars, objvars, init_copies, steps>>

Next ==
    \/ \E dev \in {"gpu", "cpu", "tpu"}, gp \in BOOLEAN : ParameterServerInit(dev, gp)
    \/ SyncMultiGPUTrainer
    \/ \E gp \in BOOLEAN : ReplicatedInit(gp)
    \/ \E sg \in BOOLEAN : AsyncInit(sg)
    \/ \E hooks \in HookChoices, fails \in BOOLEAN : ParameterServerSetup(hooks, fails)
    \/ \E hooks \in HookChoices, fails \in BOOLEAN : ReplicatedSetup(hooks, fails)
    \/ \E hooks \in HookChoices, fails \in BOOLEAN : AsyncSetup(hooks, fails)
    \/ BeforeTrain
    \/ \E g \in [1..Len(tower) -> Values] : RunStep(g)
    \/ Trigger

Spec == Init /\ [][Next]_vars

\* ---------------------------------------------------------------- properties
Contains(seq, x) == \E i \in 1..Len(seq) : seq[i] = x

CountLayers(src, t) == Cardinality({i \in 1..Len(src) : src[i].t = t})

AllEqual(c) == \A i \in 1..Len(c) : c[i] = c[1]

\* The last constructor inserted a staging wrapper / asked for an accelerator.
Inserted == Contains(calls, "StagingInputWrapper")
Checked == Contains(calls, "is_gpu_available")

C2_ExactlyOne ==
    pc \in {"constructed", "setup_done", "setup_error", "training"} =>
        ((data # NoSource) # (dataflow # None))

\* C3: a parameter-server trainer given a ps_device other than 'gpu' and 'cpu'
\* ends its constructor with an assertion error, with the trainer base not
\* initialised, the input source not set up and nothing built; with 'gpu' or
\* 'cpu' the constructor fails only if the prefetch policy did.
C3_PsDevice ==
    (kind = "ParameterServer" /\ pc # "new") =>
        /\ ~(args.ps_device \in {"gpu", "cpu"}) =>
              /\ pc = "ctor_error"
              /\ err = "AssertionError"
              /\ ~base_init
              /\ ps_device = None
              /\ ~Contains(calls, "Trainer.__init__")
              /\ ~Contains(calls, "input_source.setup")
              /\ ~Contains(calls, "build")
              /\ train_op = NoOp
              /\ copies = <<>>
        /\ (args.ps_device \in {"gpu", "cpu"} /\ pc = "ctor_error") =>
              ~apply_prefetch_policy(Config, args.gpu_prefetch).ok

C3_Witness ==
    /\ kind = "ParameterServer"
    /\ pc = "ctor_error"
    /\ args.ps_device = "tpu"
    /\ input_source # NoSource
    /\ model # None

\* C4: a constructor called on a config with no model, or with neither data nor
\* dataflow, ends with an assertion error, leaves config.data and
\* config.dataflow as they were, makes no call (no wrapper, no input setup, no
\* build) and leaves the trainer without a training-step operation.
C4_RequiredFields ==
    [][(model = None \/ (data = NoSource /\ dataflow = None)) =>
          /\ kind' \in {"ParameterServer", "Replicated", "Async"}
          /\ pc' = "ctor_error"
          /\ err' = "AssertionError"
          /\ data' = data
          /\ dataflow' = dataflow
          /\ calls' = <<>>
          /\ input_source' = NoSource
          /\ ~base_init'
          /\ train_op' = NoOp]_vars

C4_Witness ==
    /\ kind = "Async"
    /\ pc = "ctor_error"
    /\ model # None
    /\ data = NoSource
    /\ dataflow = None

\* What a gpu_prefetch value gp means for the constructor that just ended.
PrefetchRule(gp) ==
    /\ ~gp => ~Inserted
    /\ Len(tower) = 1 => (~Inserted /\ ~Checked)
    /\ (gp /\ Len(tower) > 1 /\ ~gpu_available) =>
          (pc = "ctor_error" /\ err = "AssertionError" /\ ~Inserted)
    /\ (gp /\ Len(tower) > 1 /\ gpu_available) =>
          /\ IsStagingOrDummy(data)
          /\ Inserted => (/\ Head(data).t = "StagingInputWrapper"
                          /\ ~IsStagingOrDummy(Tail(data)))

\* C5 as stated: each of the three constructors takes a boolean gpu_prefetch
\* and the input source follows it.
C5_Original ==
    (pc \in {"constructed", "ctor_error"} /\ RequiredFields(Config)) =>
        /\ "gpu_prefetch" \in DOMAIN args
        /\ PrefetchRule(args.gpu_prefetch)

\* C5 amended: the parameter-server and replicated constructors take a boolean
\* gpu_prefetch and the input source follows it; the async constructor takes
\* none and always behaves as with gpu_prefetch true.
C5_Prefetch ==
    (pc \in {"constructed", "ctor_error"} /\ RequiredFields(Config)) =>
        /\ ("gpu_prefetch" \in DOMAIN args) <=> (kind # "Async")
        /\ PrefetchRule(IF kind = "Async" THEN TRUE ELSE args.gpu_prefetch)

C5_Witness ==
    /\ kind = "Replicated"
    /\ pc = "constructed"
    /\ args.gpu_prefetch
    /\ Len(tower) > 1
    /\ Inserted

\* C6: a successful _setup leaves the callback list as the old list, then the
\* input source's hooks in the order returned, then (replicated only) one hook
\* running post_init_op; and train_op is the apply operation of the trainer's
\* own builder over config.tower.
C6_SetupFrame ==
    [][(pc = "constructed" /\ pc' = "setup_done") =>
          LET old == Len(callbacks)
              hk == Len(input_hooks')
              extra == IF kind = "Replicated" THEN 1 ELSE 0
          IN  /\ Len(callbacks') = old + hk + extra
              /\ SubSeq(callbacks', 1, old) = callbacks
              /\ SubSeq(callbacks', old + 1, old + hk) = input_hooks'
              /\ \A i \in 1..(old + hk) : callbacks'[i].op # "post_init_op"
              /\ extra = 1 => callbacks'[old + hk + 1].op = "post_init_op"
              /\ train_op' # NoOp
              /\ train_op'.towers = tower
              /\ train_op'.builder =
                    (IF kind = "Replicated" THEN "SyncMultiGPUReplicatedBuilder"
                     ELSE IF kind = "Async" THEN "AsyncMultiGPUBuilder"
                     ELSE "SyncMultiGPUParameterServerBuilder")]_vars

C6_Witness ==
    /\ kind = "Replicated"
    /\ pc = "setup_done"
    /\ Len(callbacks) = 5
    /\ callbacks[5].op = "post_init_op"

\* C7: in the replicated trainer, from the moment post_init_op has run or a
\* step has run, all copies of the learnable state are equal, whatever the
\* initial values and the per-tower gradients of the steps were.
C7_CopiesEqual ==
    (kind = "Replicated" /\ (sync_runs >= 1 \/ steps >= 1)) => AllEqual(copies)

C7_Witness ==
    /\ kind = "Replicated"
    /\ Len(tower) > 1
    /\ ~AllEqual(init_copies)
    /\ steps = MaxSteps
    /\ copies[1] # init_copies[1]

\* C8: a run of post_init_op leaves every copy equal to what tower 0's copy
\* was, tower 0's copy included, and running it once more changes nothing.
C8_SyncIdempotent ==
    [][sync_runs' = sync_runs + 1 =>
          /\ \A i \in 1..Len(copies) : copies'[i] = copies[1]
          /\ Len(copies') = Len(copies)
          /\ PostInitSync(copies') = copies']_vars

C8_Witness ==
    /\ kind = "Replicated"
    /\ ~AllEqual(init_copies)
    /\ sync_runs = 2
    /\ steps = 0

C10_BuildFails ==
    [][/\ (pc = "constructed" /\ pc' = "setup_error") =>
             /\ err' = "GraphConstructionError"
             /\ callbacks' = callbacks
             /\ train_op' = NoOp
             /\ calls' = calls \o <<"input_source.setup", "build">>
       /\ (pc = "constructed" /\ pc' = "setup_done") =>
             calls' = calls \o <<"input_source.setup", "build", "callbacks.extend">>
      ]_vars

C10_Witness ==
    /\ pc = "setup_error"
    /\ kind = "Replicated"
    /\ input_hooks # <<>>
    /\ callbacks = <<Hook("A"), Hook("B")>>
    /\ train_op = NoOp

====
